---- MODULE Spec2Model ----
(***************************************************************************)
(* Job queue of handbrake2resilio (src/api-gateway/job_queue.py): the      *)
(* JobQueue object, its worker threads and its public operations.          *)
(*                                                                         *)
(* A ConversionJob is a Python object that the queue, the two tables and   *)
(* the workers share by reference; the model keeps the objects in the      *)
(* sequence jobs and passes their indices around.  The tables and the      *)
(* store are keyed by job id, and two objects may carry the same id.       *)
(***************************************************************************)
EXTENDS Integers, Sequences, FiniteSets, TLC

\* ---------------------------------------------------------------- bounds
NumWorkers == 2     \* worker threads started by _start_workers
NumIds     == 2     \* distinct job ids the callers use
MaxJobs    == 2     \* ConversionJob objects accepted by add_job
MaxRetries == 1     \* largest max_retries a caller submits
MaxClock   == 2     \* readings of datetime.utcnow() that differ
MAX_CONCURRENT_JOBS == 1    \* conversions the HandBrake service runs at once

Workers == 1..NumWorkers
Ids     == 1..NumIds

\* ------------------------------------------------------------ JobStatus
PENDING   == "pending"
RUNNING   == "running"
COMPLETED == "completed"
FAILED    == "failed"
CANCELLED == "cancelled"
RETRYING  == "retrying"

JobStatus == {PENDING, RUNNING, COMPLETED, FAILED, CANCELLED, RETRYING}

\* None, for a timestamp that is not set and for a lookup that finds nothing;
\* the readings of the clock are 1, 2, ...
NoTime == 0
NoJob  == 0

\* ------------------------------------------------------- ResourceMonitor
cpu_threshold    == 80
memory_threshold == 80

\* what get_system_usage can return: the zeroed snapshot of a failed read,
\* a host under its limits and a host over them
ZeroUsage ==
    [cpu_percent |-> 0, memory_percent |-> 0, memory_available_gb |-> 0,
     disk_percent |-> 0, disk_free_gb |-> 0]

Usages ==
    { ZeroUsage,
      [cpu_percent |-> 50, memory_percent |-> 60, memory_available_gb |-> 3,
       disk_percent |-> 70, disk_free_gb |-> 8],
      [cpu_percent |-> 95, memory_percent |-> 90, memory_available_gb |-> 1,
       disk_percent |-> 80, disk_free_gb |-> 1] }

\* the floors of lines 119 and 126 compared in MB instead of GB
can_start_job_floors_in_mb(usage) ==
    IF usage.cpu_percent > cpu_threshold THEN FALSE
    ELSE IF usage.memory_percent > memory_threshold THEN FALSE
    ELSE IF usage.memory_available_gb < 2 * 1024 THEN FALSE
    ELSE IF usage.disk_free_gb < 5 * 1024 THEN FALSE
    ELSE TRUE

\* line 109 with >= for >
can_start_job_at_ceiling(usage) ==
    IF usage.cpu_percent >= cpu_threshold THEN FALSE
    ELSE IF usage.memory_percent > memory_threshold THEN FALSE
    ELSE IF usage.memory_available_gb < 2 THEN FALSE
    ELSE IF usage.disk_free_gb < 5 THEN FALSE
    ELSE TRUE

\* can_start_job without the two floors of lines 118-128
can_start_job_percent_only(usage) ==
    IF usage.cpu_percent > cpu_threshold THEN FALSE
    ELSE IF usage.memory_percent > memory_threshold THEN FALSE
    ELSE TRUE

can_start_job(usage) ==
    IF usage.cpu_percent > cpu_threshold THEN FALSE
    ELSE IF usage.memory_percent > memory_threshold THEN FALSE
    ELSE IF usage.memory_available_gb < 2 THEN FALSE
    ELSE IF usage.disk_free_gb < 5 THEN FALSE
    ELSE TRUE

Max(a, b) == IF a >= b THEN a ELSE b
Min(a, b) == IF a <= b THEN a ELSE b

\* lines 141 and 143 with >= for >
get_optimal_job_count_at_limit(usage, cpu_count, max_jobs) ==
    IF usage.cpu_percent >= 70 THEN Max(1, cpu_count \div 4)
    ELSE IF usage.cpu_percent >= 50 THEN Max(2, cpu_count \div 2)
    ELSE Min(max_jobs, cpu_count)

\* get_optimal_job_count, lines 141-148, for the snapshot it sampled, the
\* psutil.cpu_count() of the host and the configured max_concurrent_jobs
get_optimal_job_count(usage, cpu_count, max_jobs) ==
    IF usage.cpu_percent > 70 THEN Max(1, cpu_count \div 4)
    ELSE IF usage.cpu_percent > 50 THEN Max(2, cpu_count \div 2)
    ELSE Min(max_jobs, cpu_count)

\* ---------------------------------------------------------------- state
VARIABLES
    jobs,            \* the ConversionJob objects, by reference
    hist,            \* per object: what has happened to it (history only)
    job_queue,       \* self.job_queue: FIFO of object references
    running_jobs,    \* self.running_jobs: id -> object
    completed_jobs,  \* self.completed_jobs: id -> object
    db,              \* the jobs table of the sqlite store: id -> row
    shutdown_event,  \* self.shutdown_event
    worker,          \* per worker thread: position in _worker_loop, job held
    client,          \* the API caller that holds self.lock, if any
    ret,             \* the value the last API call returned
    clock,           \* the last reading of datetime.utcnow()
    monitor,         \* self.resource_monitor and the host that psutil reads
    probe,           \* the last direct calls of the ResourceMonitor methods
    service          \* the HandBrake service: its jobs, threads and stores

vars == <<jobs, hist, job_queue, running_jobs, completed_jobs, db,
          shutdown_event, worker, client, ret, clock, monitor, probe,
          service>>

\* ConversionJob as add_job receives it: the dataclass defaults, with the
\* id, max_retries and retry_count the caller chose
ConversionJob(id, max_retries, retry_count) ==
    [id |-> id, status |-> PENDING, progress |-> 0, error_message |-> "",
     retry_count |-> retry_count, max_retries |-> max_retries,
     started_at |-> NoTime, completed_at |-> NoTime]

NewHist(retry_count) ==
    [submitted_retry_count |-> retry_count, dequeued |-> FALSE,
     invoked |-> 0, retried |-> 0, succeeded |-> FALSE, cancelled |-> "no"]

\* the columns _update_job_in_db writes for a job
Row(job) ==
    [status |-> job.status, progress |-> job.progress,
     error_message |-> job.error_message, retry_count |-> job.retry_count,
     max_retries |-> job.max_retries, started_at |-> job.started_at,
     completed_at |-> job.completed_at]

\* INSERT OR IGNORE for INSERT OR REPLACE: a stored row is left as it is
update_job_in_db_insert_or_ignore(table, job) ==
    [i \in DOMAIN table \cup {job.id} |->
        IF i \in DOMAIN table THEN table[i] ELSE Row(job)]

\* INSERT OR REPLACE INTO jobs
update_job_in_db(table, job) ==
    [i \in DOMAIN table \cup {job.id} |->
        IF i = job.id THEN Row(job) ELSE table[i]]

\* dict helpers
DictPut(d, k, v) == [i \in DOMAIN d \cup {k} |-> IF i = k THEN v ELSE d[i]]
DictDel(d, k)    == [i \in DOMAIN d \ {k} |-> d[i]]

\* datetime.utcnow(): every reading is later than the one before it, until
\* MaxClock readings have differed; from then on the readings are equal
UtcNow == {IF clock < MaxClock THEN clock + 1 ELSE clock}

IdleClient == [pc |-> "idle", id |-> 0, job |-> NoJob, was |-> ""]
\* the parameter tuple of a statement that no thread is building
NoRow == Row(ConversionJob(0, 0, 0))
\* after_stop: the job in hand was taken off the queue with shutdown_event
\* set (history only); row: the parameters _update_job_in_db has read from
\* the job for an INSERT it has not executed yet
IdleWorker == [pc |-> "wait", job |-> NoJob, after_stop |-> FALSE,
               row |-> NoRow]
ExitedWorker == [pc |-> "exit", job |-> NoJob, after_stop |-> FALSE,
                 row |-> NoRow]
NotStarted == [pc |-> "none", job |-> NoJob, after_stop |-> FALSE,
               row |-> NoRow]

\* what an API call returned: add_job and cancel_job return a bool; job is
\* the object the call was about (history only)
NoReturn == [op |-> "none", ok |-> FALSE]

\* the last direct call of a ResourceMonitor method: the snapshot it sampled,
\* the bool can_start_job returned or the count get_optimal_job_count
\* returned; prev is the get_optimal_job_count call before it
NoCall  == [made |-> FALSE, cpu_percent |-> 0, count |-> 0]
NoCounts == [queue_size |-> 0, running_jobs |-> 0, completed_jobs |-> 0]
NoProbe == [op |-> "none", usage |-> ZeroUsage, admitted |-> FALSE,
            count |-> 0, prev |-> NoCall, status |-> NoCounts]

\* the monitor of the queue's runs: psutil answers, and the host has as many
\* cores as max_concurrent_jobs allows workers
QueueMonitor ==
    [readable |-> TRUE, cpu_count |-> NumWorkers, max_jobs |-> NumWorkers]

\* get_system_usage, lines 82-102: a reading of the host, or the zeroed
\* snapshot when psutil raises
get_system_usage(readings) ==
    IF monitor.readable THEN readings ELSE {ZeroUsage}

\* handbrake_service.py, lines 56-57 and 48-50: no job has been created, no
\* thread started, active_jobs and the Redis hashes are empty
NoService == [jobs |-> <<>>, thread |-> <<>>, active_jobs |-> <<>>,
              redis |-> <<>>]

\* self.lock is held from the first to the last step of an API call
LockFree == client.pc = "idle"

\* _start_workers, lines 209-216: as many threads as get_optimal_job_count
\* returns for the snapshot it samples at construction; the others of
\* Workers are never created
start_workers(usage) ==
    [w \in Workers |->
        IF w <= get_optimal_job_count(usage, monitor.cpu_count,
                                      monitor.max_jobs)
        THEN IdleWorker ELSE NotStarted]

Init ==
    /\ jobs = <<>>
    /\ hist = <<>>
    /\ job_queue = <<>>
    /\ running_jobs = <<>>
    /\ completed_jobs = <<>>
    /\ db = <<>>
    /\ shutdown_event = FALSE
    /\ client = IdleClient
    /\ ret = NoReturn
    /\ clock = 0
    /\ monitor = QueueMonitor
    /\ probe = NoProbe
    /\ service = NoService
    /\ \E usage \in get_system_usage(Usages) : worker = start_workers(usage)


\* ------------------------------------------------------ public operations
\* line 383 with the completed table forgotten
already_exists_active_only(id) == id \in DOMAIN running_jobs

\* add_job, line 383: the id is already tracked
already_exists(id) == id \in DOMAIN running_jobs \/ id \in DOMAIN completed_jobs

\* add_job, lines 381-389: under the lock, reject a tracked id, else put the
\* job on the queue and register it as active
add_job(id, max_retries, retry_count) ==
    /\ client.pc = "idle"
    /\ IF already_exists(id)
       THEN /\ ret' = [op |-> "add_job", ok |-> FALSE]
            /\ UNCHANGED <<jobs, hist, job_queue, running_jobs, client>>
       ELSE /\ Len(jobs) < MaxJobs
            /\ jobs' = Append(jobs, ConversionJob(id, max_retries, retry_count))
            /\ hist' = Append(hist, NewHist(retry_count))
            /\ job_queue' = Append(job_queue, Len(jobs) + 1)
            /\ running_jobs' = DictPut(running_jobs, id, Len(jobs) + 1)
            /\ client' = [pc |-> "add_db", id |-> id, job |-> Len(jobs) + 1,
                          was |-> PENDING]
            /\ UNCHANGED ret
    /\ UNCHANGED <<monitor, probe, service>>
    /\ UNCHANGED <<completed_jobs, db, shutdown_event, worker, clock>>

\* add_job, lines 391-395: save to the database and return True
add_job_db ==
    /\ client.pc = "add_db"
    /\ db' = update_job_in_db(db, jobs[client.job])
    /\ ret' = [op |-> "add_job", ok |-> TRUE]
    /\ client' = IdleClient
    /\ UNCHANGED <<monitor, probe, service>>
    /\ UNCHANGED <<jobs, hist, job_queue, running_jobs, completed_jobs,
                   shutdown_event, worker, clock>>

\* cancel_job with "return True" outside the test of line 405
cancel_job_always_true(id) ==
    /\ client.pc = "idle"
    /\ IF id \in DOMAIN running_jobs
       THEN /\ jobs' = [jobs EXCEPT ![running_jobs[id]].status = CANCELLED]
            /\ client' = [pc |-> "cancel_db", id |-> id,
                          job |-> running_jobs[id],
                          was |-> jobs[running_jobs[id]].status]
            /\ UNCHANGED ret
       ELSE /\ ret' = [op |-> "cancel_job", ok |-> TRUE]
            /\ UNCHANGED <<jobs, client>>
    /\ UNCHANGED <<monitor, probe, service>>
    /\ UNCHANGED <<hist, job_queue, running_jobs, completed_jobs, db,
                   shutdown_event, worker, clock>>

\* cancel_job, lines 404-407 and 415-417: under the lock, mark an active job
\* cancelled; an id that is not active returns False
cancel_job(id) ==
    /\ client.pc = "idle"
    /\ IF id \in DOMAIN running_jobs
       THEN /\ jobs' = [jobs EXCEPT ![running_jobs[id]].status = CANCELLED]
            /\ client' = [pc |-> "cancel_db", id |-> id,
                          job |-> running_jobs[id],
                          was |-> jobs[running_jobs[id]].status]
            /\ UNCHANGED ret
       ELSE /\ ret' = [op |-> "cancel_job", ok |-> FALSE]
            /\ UNCHANGED <<jobs, client>>
    /\ UNCHANGED <<monitor, probe, service>>
    /\ UNCHANGED <<hist, job_queue, running_jobs, completed_jobs, db,
                   shutdown_event, worker, clock>>

\* cancel_job, lines 408-414: persist, remove from running_jobs, return True
cancel_job_db ==
    /\ client.pc = "cancel_db"
    /\ db' = update_job_in_db(db, jobs[client.job])
    /\ running_jobs' = DictDel(running_jobs, client.id)
    /\ hist' = [hist EXCEPT ![client.job].cancelled =
                    IF client.was # PENDING THEN "other"
                    ELSE IF hist[client.job].dequeued THEN "pending"
                    ELSE "undequeued"]
    /\ ret' = [op |-> "cancel_job", ok |-> TRUE]
    /\ client' = IdleClient
    /\ UNCHANGED <<monitor, probe, service>>
    /\ UNCHANGED <<jobs, job_queue, completed_jobs, shutdown_event, worker,
                   clock>>

\* get_job_status, lines 425-431: the active table first, then the completed
\* get_job_status without the elif of lines 428-429
get_job_status_active_only(id) ==
    IF id \in DOMAIN running_jobs THEN running_jobs[id] ELSE NoJob

get_job_status(id) ==
    IF id \in DOMAIN running_jobs THEN running_jobs[id]
    ELSE IF id \in DOMAIN completed_jobs THEN completed_jobs[id]
    ELSE NoJob

\* get_queue_status, lines 437-441: the three counts, read under the lock
get_queue_status ==
    [queue_size |-> Len(job_queue),
     running_jobs |-> Cardinality(DOMAIN running_jobs),
     completed_jobs |-> Cardinality(DOMAIN completed_jobs)]

\* shutdown, line 450
shutdown ==
    /\ ~shutdown_event
    /\ shutdown_event' = TRUE
    /\ UNCHANGED <<monitor, probe, service>>
    /\ UNCHANGED <<jobs, hist, job_queue, running_jobs, completed_jobs, db,
                   worker, client, ret, clock>>

\* ---------------------------------------------------------- worker threads
\* _worker_loop, line 222: the top of the loop, reached after a job or a
\* denial: the thread ends when shutdown_event is set
LoopTop == IF shutdown_event THEN ExitedWorker ELSE IdleWorker

\* _worker_loop, lines 222-228: job_queue.get(timeout=1) found the queue
\* empty, and the test at the top of the loop found shutdown_event set
worker_exit(w) ==
    /\ worker[w].pc = "wait"
    /\ job_queue = <<>>
    /\ shutdown_event
    /\ worker' = [worker EXCEPT ![w] = ExitedWorker]
    /\ UNCHANGED <<monitor, probe, service>>
    /\ UNCHANGED <<jobs, hist, job_queue, running_jobs, completed_jobs, db,
                   shutdown_event, client, ret, clock>>

\* _worker_loop, line 226: job_queue.get returns the head of the queue
worker_get(w) ==
    /\ worker[w].pc = "wait"
    /\ job_queue # <<>>
    /\ worker' = [worker EXCEPT ![w] = [pc |-> "gate", job |-> Head(job_queue),
                                        after_stop |-> shutdown_event,
                                        row |-> NoRow]]
    /\ job_queue' = Tail(job_queue)
    /\ hist' = [hist EXCEPT ![Head(job_queue)].dequeued = TRUE]
    /\ UNCHANGED <<monitor, probe, service>>
    /\ UNCHANGED <<jobs, running_jobs, completed_jobs, db, shutdown_event,
                   client, ret, clock>>

\* the denial counted as a failed attempt: one retry used, back on the queue
worker_denied_counted(w) ==
    /\ worker[w].pc = "gate"
    /\ \E usage \in get_system_usage(Usages) : ~can_start_job(usage)
    /\ jobs' = [jobs EXCEPT ![worker[w].job].retry_count = @ + 1]
    /\ job_queue' = Append(job_queue, worker[w].job)
    /\ worker' = [worker EXCEPT ![w] = LoopTop]
    /\ UNCHANGED <<monitor, probe, service>>
    /\ UNCHANGED <<hist, running_jobs, completed_jobs, db,
                   shutdown_event, client, ret, clock>>

\* _worker_loop, lines 231-235: admission denied, the job goes back to the
\* tail of the queue (the sleep that follows changes nothing)
worker_denied(w) ==
    /\ worker[w].pc = "gate"
    /\ \E usage \in get_system_usage(Usages) : ~can_start_job(usage)
    /\ job_queue' = Append(job_queue, worker[w].job)
    /\ worker' = [worker EXCEPT ![w] = LoopTop]
    /\ UNCHANGED <<monitor, probe, service>>
    /\ UNCHANGED <<jobs, hist, running_jobs, completed_jobs, db,
                   shutdown_event, client, ret, clock>>

\* _process_job, lines 251-258, once can_start_job has returned True: the job
\* is marked running, stamped and persisted, and _run_conversion is called
worker_start(w) ==
    /\ worker[w].pc = "gate"
    /\ \E usage \in get_system_usage(Usages) : can_start_job(usage)
    /\ \E now \in UtcNow :
          /\ clock' = now
          /\ jobs' = [jobs EXCEPT ![worker[w].job].status = RUNNING,
                                  ![worker[w].job].started_at = now]
    /\ db' = update_job_in_db(db, jobs'[worker[w].job])
    /\ hist' = [hist EXCEPT ![worker[w].job].invoked = @ + 1]
    /\ worker' = [worker EXCEPT ![w].pc = "convert"]
    /\ UNCHANGED <<monitor, probe, service>>
    /\ UNCHANGED <<job_queue, running_jobs, completed_jobs, shutdown_event,
                   client, ret>>

\* _process_job, lines 260-263: _run_conversion returned True
worker_success(w) ==
    /\ worker[w].pc = "convert"
    /\ \E now \in UtcNow :
          /\ clock' = now
          /\ jobs' = [jobs EXCEPT ![worker[w].job].status = COMPLETED,
                                  ![worker[w].job].progress = 100,
                                  ![worker[w].job].completed_at = now]
    /\ hist' = [hist EXCEPT ![worker[w].job].succeeded = TRUE]
    /\ worker' = [worker EXCEPT ![w].pc = "final_db"]
    /\ UNCHANGED <<monitor, probe, service>>
    /\ UNCHANGED <<job_queue, running_jobs, completed_jobs, db,
                   shutdown_event, client, ret>>

\* the error_message _run_conversion leaves when it returns False (lines 325,
\* 330, 334); _process_job does not look at the text
FailureMessages == {"stderr"}

\* line 267 with <= for <
retry_or_fail_off_by_one(job) ==
    IF job.retry_count <= job.max_retries
    THEN [job EXCEPT !.retry_count = @ + 1, !.status = RETRYING]
    ELSE [job EXCEPT !.status = FAILED]

\* retry_count incremented before the test of line 267
retry_or_fail_count_first(job) ==
    IF job.retry_count + 1 <= job.max_retries
    THEN [job EXCEPT !.retry_count = @ + 1, !.status = RETRYING]
    ELSE [job EXCEPT !.retry_count = @ + 1, !.status = FAILED]

\* _process_job, lines 265-279: _run_conversion returned False
retry_or_fail(job) ==
    IF job.retry_count < job.max_retries
    THEN [job EXCEPT !.retry_count = @ + 1, !.status = RETRYING]
    ELSE [job EXCEPT !.status = FAILED]

worker_failure(w) ==
    /\ worker[w].pc = "convert"
    /\ \E msg \in FailureMessages :
          jobs' = [jobs EXCEPT ![worker[w].job] =
                       retry_or_fail([@ EXCEPT !.error_message = msg])]
    /\ hist' = [hist EXCEPT ![worker[w].job].retried =
                    IF jobs'[worker[w].job].status = RETRYING
                    THEN @ + 1 ELSE @]
    /\ worker' = [worker EXCEPT ![w].pc =
                      IF jobs'[worker[w].job].status = RETRYING
                      THEN "cooldown" ELSE "final_db"]
    /\ UNCHANGED <<monitor, probe, service>>
    /\ UNCHANGED <<job_queue, running_jobs, completed_jobs, db,
                   shutdown_event, client, ret, clock>>

\* _run_conversion, line 329
TimedOut == "Conversion timed out after 1 hour"

\* a timeout that fails the job at once, whatever retries are left
worker_timeout_fatal(w) ==
    /\ worker[w].pc = "convert"
    /\ jobs' = [jobs EXCEPT ![worker[w].job].error_message = TimedOut,
                            ![worker[w].job].status = FAILED]
    /\ worker' = [worker EXCEPT ![w].pc = "final_db"]
    /\ UNCHANGED <<monitor, probe, service>>
    /\ UNCHANGED <<hist, job_queue, running_jobs, completed_jobs, db,
                   shutdown_event, client, ret, clock>>

\* _run_conversion, lines 328-331: subprocess.run raises TimeoutExpired, the
\* message is stored and False returned; then _process_job, lines 265-279
worker_timeout(w) ==
    /\ worker[w].pc = "convert"
    /\ jobs' = [jobs EXCEPT ![worker[w].job] =
                    retry_or_fail([@ EXCEPT !.error_message = TimedOut])]
    /\ hist' = [hist EXCEPT ![worker[w].job].retried =
                    IF jobs'[worker[w].job].status = RETRYING
                    THEN @ + 1 ELSE @]
    /\ worker' = [worker EXCEPT ![w].pc =
                      IF jobs'[worker[w].job].status = RETRYING
                      THEN "cooldown" ELSE "final_db"]
    /\ UNCHANGED <<monitor, probe, service>>
    /\ UNCHANGED <<job_queue, running_jobs, completed_jobs, db,
                   shutdown_event, client, ret, clock>>

\* line 276 left out: the retry is counted and the job is not put back
worker_requeue_dropped(w) ==
    /\ worker[w].pc = "cooldown"
    /\ worker' = [worker EXCEPT ![w].pc = "final_db"]
    /\ UNCHANGED <<monitor, probe, service>>
    /\ UNCHANGED <<jobs, hist, job_queue, running_jobs, completed_jobs, db,
                   shutdown_event, client, ret, clock>>

\* _process_job, lines 275-276: after the sleep, back on the queue
worker_requeue(w) ==
    /\ worker[w].pc = "cooldown"
    /\ job_queue' = Append(job_queue, worker[w].job)
    /\ worker' = [worker EXCEPT ![w].pc = "final_db"]
    /\ UNCHANGED <<monitor, probe, service>>
    /\ UNCHANGED <<jobs, hist, running_jobs, completed_jobs, db,
                   shutdown_event, client, ret, clock>>

\* lines 287-288 without lines 285-286: the entry of the active table stays
move_to_completed_kept_active(job) ==
    /\ running_jobs' = running_jobs
    /\ completed_jobs' = DictPut(completed_jobs, jobs[job].id, job)

\* _process_job, lines 285-288: off the active table if it is there, and
\* onto the completed table in every case
move_to_completed(job) ==
    /\ running_jobs' = IF jobs[job].id \in DOMAIN running_jobs
                       THEN DictDel(running_jobs, jobs[job].id)
                       ELSE running_jobs
    /\ completed_jobs' = DictPut(completed_jobs, jobs[job].id, job)

\* line 282 inside the branch of line 260: only a success is persisted
worker_final_db_success_only(w) ==
    /\ worker[w].pc = "final_db"
    /\ db' = IF jobs[worker[w].job].status = COMPLETED
             THEN update_job_in_db(db, jobs[worker[w].job]) ELSE db
    /\ worker' = [worker EXCEPT ![w].pc = "move"]
    /\ UNCHANGED <<monitor, probe, service>>
    /\ UNCHANGED <<jobs, hist, job_queue, running_jobs, completed_jobs,
                   shutdown_event, client, ret, clock>>

\* _process_job, line 282: persist what the attempt left in the job
worker_final_db(w) ==
    /\ worker[w].pc = "final_db"
    /\ db' = update_job_in_db(db, jobs[worker[w].job])
    /\ worker' = [worker EXCEPT ![w].pc = "move"]
    /\ UNCHANGED <<monitor, probe, service>>
    /\ UNCHANGED <<jobs, hist, job_queue, running_jobs, completed_jobs,
                   shutdown_event, client, ret, clock>>

\* The same call of line 282 with other threads running inside it.
\* _update_job_in_db, lines 353-371: the parameters are read from the job
worker_final_db_read(w) ==
    /\ worker[w].pc = "final_db"
    /\ worker' = [worker EXCEPT ![w].pc = "final_write",
                                ![w].row = Row(jobs[worker[w].job])]
    /\ UNCHANGED <<monitor, probe, service>>
    /\ UNCHANGED <<jobs, hist, job_queue, running_jobs, completed_jobs, db,
                   shutdown_event, client, ret, clock>>

\* _update_job_in_db, lines 346-373: the INSERT OR REPLACE is executed with
\* the parameters read before, and committed
worker_final_db_commit(w) ==
    /\ worker[w].pc = "final_write"
    /\ db' = DictPut(db, jobs[worker[w].job].id, worker[w].row)
    /\ worker' = [worker EXCEPT ![w].pc = "move", ![w].row = NoRow]
    /\ UNCHANGED <<monitor, probe, service>>
    /\ UNCHANGED <<jobs, hist, job_queue, running_jobs, completed_jobs,
                   shutdown_event, client, ret, clock>>

\* _process_job, lines 285-288, and _worker_loop back to its top: take the
\* lock and move the job to completed_jobs
worker_move(w) ==
    /\ worker[w].pc = "move"
    /\ LockFree
    /\ move_to_completed(worker[w].job)
    /\ worker' = [worker EXCEPT ![w] = LoopTop]
    /\ UNCHANGED <<monitor, probe, service>>
    /\ UNCHANGED <<jobs, hist, job_queue, db, shutdown_event, client, ret,
                   clock>>

\* _process_job without the except clause of line 290, and _worker_loop
\* without that of line 243: the exception ends the thread
worker_exception_uncaught(w) ==
    /\ worker[w].pc \in {"convert", "cooldown", "final_db", "move"}
    /\ worker' = [worker EXCEPT ![w] = ExitedWorker]
    /\ UNCHANGED <<monitor, probe, service>>
    /\ UNCHANGED <<jobs, db, hist, job_queue, running_jobs, completed_jobs,
                   shutdown_event, client, ret, clock>>

\* _process_job, lines 290-294: an exception raised inside the try block,
\* after the job was marked running: the job is set to Failed with the text
\* of the exception and persisted; lines 285-288 are skipped, and
\* _worker_loop goes on (line 241, then the top of the loop)
worker_exception(w) ==
    /\ worker[w].pc \in {"convert", "cooldown", "final_db", "move"}
    /\ jobs' = [jobs EXCEPT ![worker[w].job].status = FAILED,
                            ![worker[w].job].error_message = "exception"]
    /\ db' = update_job_in_db(db, jobs'[worker[w].job])
    /\ worker' = [worker EXCEPT ![w] = LoopTop]
    /\ UNCHANGED <<monitor, probe, service>>
    /\ UNCHANGED <<hist, job_queue, running_jobs, completed_jobs,
                   shutdown_event, client, ret, clock>>

\* ------------------------------------------- a store that cannot be written
\* _update_job_in_db, lines 375-376: sqlite raises, the except clause logs
\* and the method returns None as it does after a write.  The four callers
\* of the method with a write that fails:

\* add_job, lines 391-395
add_job_db_fails ==
    /\ client.pc = "add_db"
    /\ ret' = [op |-> "add_job", ok |-> TRUE]
    /\ client' = IdleClient
    /\ UNCHANGED <<monitor, probe, service>>
    /\ UNCHANGED <<jobs, hist, job_queue, running_jobs, completed_jobs, db,
                   shutdown_event, worker, clock>>

\* cancel_job, lines 408-414
cancel_job_db_fails ==
    /\ client.pc = "cancel_db"
    /\ running_jobs' = DictDel(running_jobs, client.id)
    /\ hist' = [hist EXCEPT ![client.job].cancelled =
                    IF client.was # PENDING THEN "other"
                    ELSE IF hist[client.job].dequeued THEN "pending"
                    ELSE "undequeued"]
    /\ ret' = [op |-> "cancel_job", ok |-> TRUE]
    /\ client' = IdleClient
    /\ UNCHANGED <<monitor, probe, service>>
    /\ UNCHANGED <<jobs, job_queue, completed_jobs, db, shutdown_event,
                   worker, clock>>

\* _process_job, lines 251-258
worker_start_db_fails(w) ==
    /\ worker[w].pc = "gate"
    /\ \E usage \in get_system_usage(Usages) : can_start_job(usage)
    /\ \E now \in UtcNow :
          /\ clock' = now
          /\ jobs' = [jobs EXCEPT ![worker[w].job].status = RUNNING,
                                  ![worker[w].job].started_at = now]
    /\ hist' = [hist EXCEPT ![worker[w].job].invoked = @ + 1]
    /\ worker' = [worker EXCEPT ![w].pc = "convert"]
    /\ UNCHANGED <<monitor, probe, service>>
    /\ UNCHANGED <<job_queue, running_jobs, completed_jobs, db,
                   shutdown_event, client, ret>>

\* _process_job, line 282
worker_final_db_fails(w) ==
    /\ worker[w].pc = "final_db"
    /\ worker' = [worker EXCEPT ![w].pc = "move"]
    /\ UNCHANGED <<monitor, probe, service>>
    /\ UNCHANGED <<jobs, hist, job_queue, running_jobs, completed_jobs, db,
                   shutdown_event, client, ret, clock>>

\* ------------------------------------------------------------ specification
\* the callers of this repository construct their jobs with retry_count 0
Submit == \E id \in Ids : \E max_retries \in 0..MaxRetries :
             add_job(id, max_retries, 0)
Cancel == \E id \in Ids : cancel_job(id)

WorkerStep ==
    \E w \in Workers :
        \/ worker_get(w)
        \/ worker_denied(w)
        \/ worker_start(w)
        \/ worker_success(w)
        \/ worker_failure(w)
        \/ worker_requeue(w)
        \/ worker_final_db(w)
        \/ worker_move(w)

Next ==
    \/ Submit
    \/ add_job_db
    \/ Cancel
    \/ cancel_job_db
    \/ WorkerStep

Spec == Init /\ [][Next]_vars

\* the same with jobs that arrive with any retry_count up to their max_retries
SubmitAny == \E id \in Ids : \E max_retries \in 0..MaxRetries :
                \E retry_count \in 0..max_retries :
                   add_job(id, max_retries, retry_count)

NextRetry ==
    \/ SubmitAny
    \/ add_job_db
    \/ Cancel
    \/ cancel_job_db
    \/ WorkerStep

SpecRetry == Init /\ [][NextRetry]_vars


\* ------------------------------------------- the ResourceMonitor by itself
\* readings around the limits of can_start_job and get_optimal_job_count;
\* psutil returns floats: a percentage stands for itself rounded up and a
\* size in GB for itself rounded down, which the comparisons of lines
\* 109-126 and 141-143 do not tell apart
Snapshots ==
    [cpu_percent : {0, 30, 50, 51, 70, 71, 80, 81, 95},
     memory_percent : {60, 80, 81, 90},
     memory_available_gb : {1, 2, 3},
     disk_percent : {70},
     disk_free_gb : {1, 4, 5, 8}]

\* the same with everything but the CPU at ease
CpuSnapshots ==
    {usage \in Snapshots : /\ usage.memory_percent = 60
                           /\ usage.memory_available_gb = 3
                           /\ usage.disk_free_gb = 8}

\* psutil.cpu_count() and config.resources.max_concurrent_jobs
CpuCounts == {1, 2, 8}
MaxJobsSettings == {1, 2, 8}

InitMonitor ==
    /\ jobs = <<>>
    /\ hist = <<>>
    /\ job_queue = <<>>
    /\ running_jobs = <<>>
    /\ completed_jobs = <<>>
    /\ db = <<>>
    /\ shutdown_event = FALSE
    /\ worker = [w \in Workers |-> IdleWorker]
    /\ client = IdleClient
    /\ ret = NoReturn
    /\ clock = 0
    /\ monitor \in [readable : {TRUE}, cpu_count : CpuCounts,
                    max_jobs : MaxJobsSettings]
    /\ probe = NoProbe
    /\ service = NoService

QueueVars == <<jobs, hist, job_queue, running_jobs, completed_jobs, db,
               shutdown_event, worker, client, ret, clock>>

\* psutil starts to raise, and stops raising
readings_fail ==
    /\ monitor.readable
    /\ monitor' = [monitor EXCEPT !.readable = FALSE]
    /\ UNCHANGED <<QueueVars, probe, service>>

readings_recover ==
    /\ ~monitor.readable
    /\ monitor' = [monitor EXCEPT !.readable = TRUE]
    /\ UNCHANGED <<QueueVars, probe, service>>

\* a call of get_system_usage(), lines 80-102
call_get_system_usage ==
    /\ \E usage \in get_system_usage(Snapshots) :
          probe' = [probe EXCEPT !.op = "get_system_usage", !.usage = usage,
                                 !.admitted = FALSE, !.count = 0]
    /\ UNCHANGED <<QueueVars, monitor, service>>

\* a call of can_start_job(), lines 104-130
call_can_start_job ==
    /\ \E usage \in get_system_usage(Snapshots) :
          probe' = [probe EXCEPT !.op = "can_start_job", !.usage = usage,
                                 !.admitted = can_start_job(usage),
                                 !.count = 0]
    /\ UNCHANGED <<QueueVars, monitor, service>>

\* a call of get_optimal_job_count(), lines 132-148
call_get_optimal_job_count ==
    /\ \E usage \in get_system_usage(CpuSnapshots) :
          probe' = [op |-> "get_optimal_job_count", usage |-> usage,
                    admitted |-> FALSE,
                    count |-> get_optimal_job_count(usage, monitor.cpu_count,
                                                    monitor.max_jobs),
                    prev |-> IF probe.op = "get_optimal_job_count"
                             THEN [made |-> TRUE,
                                   cpu_percent |-> probe.usage.cpu_percent,
                                   count |-> probe.count]
                             ELSE probe.prev,
                    status |-> probe.status]
    /\ UNCHANGED <<QueueVars, monitor, service>>

\* a call of get_queue_status(), lines 433-445: the host is read at line
\* 435, again inside can_start_job() at line 442 and a third time inside
\* get_optimal_job_count() at line 443; the counts of lines 438-440 are read
\* under the lock.  The dict it returns:
call_get_queue_status ==
    /\ LockFree
    /\ \E usage \in get_system_usage(Usages),
          second \in get_system_usage(Usages),
          third \in get_system_usage(Usages) :
          probe' = [op |-> "get_queue_status", usage |-> usage,
                    admitted |-> can_start_job(second),
                    count |-> get_optimal_job_count(third, monitor.cpu_count,
                                                    monitor.max_jobs),
                    prev |-> probe.prev,
                    status |-> get_queue_status]
    /\ UNCHANGED <<QueueVars, monitor, service>>

\* calls of get_system_usage and can_start_job on a host whose readings come
\* and go
NextAdmit ==
    \/ readings_fail
    \/ readings_recover
    \/ call_get_system_usage
    \/ call_can_start_job

SpecAdmit == Init /\ [][NextAdmit]_vars

\* calls of get_optimal_job_count for every core count and configured
\* maximum
NextOptimal ==
    \/ readings_fail
    \/ readings_recover
    \/ call_get_optimal_job_count

SpecOptimal == InitMonitor /\ [][NextOptimal]_vars

\* the queue on a host whose readings come and go
NextOutage ==
    \/ Next
    \/ readings_fail
    \/ readings_recover

SpecOutage == Init /\ [][NextOutage]_vars

\* the callers of the liveness runs: one job, and after a job that was
\* cancelled before any worker took it, a job submitted again under its id
SubmitLive ==
    \/ Len(jobs) = 0 /\ Submit
    \/ /\ Len(jobs) > 0
       /\ hist[Len(jobs)].cancelled = "undequeued"
       /\ \E max_retries \in 0..MaxRetries :
             add_job(jobs[Len(jobs)].id, max_retries, 0)

NextLive ==
    \/ SubmitLive
    \/ add_job_db
    \/ Cancel
    \/ cancel_job_db
    \/ WorkerStep

\* shutdown() called at any moment, with the callers of the liveness runs
NextShutdown ==
    \/ NextLive
    \/ shutdown
    \/ \E w \in Workers : worker_exit(w)

SpecShutdown == Init /\ [][NextShutdown]_vars

\* the same with exceptions inside _process_job
NextFaults ==
    \/ NextShutdown
    \/ \E w \in Workers : worker_exception(w)

SpecFaults == Init /\ [][NextFaults]_vars

\* the queue on a store whose writes may fail, with the callers of the
\* liveness runs
NextDbFails ==
    \/ NextLive
    \/ add_job_db_fails
    \/ cancel_job_db_fails
    \/ \E w \in Workers : worker_start_db_fails(w)
    \/ \E w \in Workers : worker_final_db_fails(w)

SpecDbFails == Init /\ [][NextDbFails]_vars

\* the scheduling the threads get: a thread that can take a step takes one
\* (weak fairness); a worker that asks for admission again and again is
\* admitted at some point (strong fairness of worker_start); subprocess.run
\* returns (success or failure); a caller that holds self.lock releases it
Fairness ==
    /\ WF_vars(add_job_db)
    /\ WF_vars(cancel_job_db)
    /\ \A w \in Workers :
          /\ WF_vars(worker_get(w))
          /\ SF_vars(worker_start(w))
          /\ WF_vars(worker_success(w) \/ worker_failure(w))
          /\ WF_vars(worker_requeue(w))
          /\ WF_vars(worker_final_db(w))
          /\ WF_vars(worker_move(w))

SpecLive == Init /\ [][NextLive]_vars /\ Fairness

\* the queue with a converter that can also run into its one-hour limit
NextTimeout ==
    \/ NextLive
    \/ \E w \in Workers : worker_timeout(w)

SpecTimeout == Init /\ [][NextTimeout]_vars

\* --------------------------------------------------- the HandBrake service
\* handbrake_service.py.  service.jobs holds the ConversionJob objects that
\* /convert created, service.thread the position of the thread started for
\* each, service.active_jobs the dict id -> object, service.redis the hash
\* stored under job:<id> by redis_client.hset.

\* what HandBrakeCLI reports as Progress.Progress, times 100
ProgressReports == {0, 50, 100}
ReturnCodes == {0, 1}

ServiceJobs == 1..Len(service.jobs)

\* can_start_job, lines 93-95: the jobs of active_jobs that are Running
active_count ==
    Cardinality({id \in DOMAIN service.active_jobs :
        service.jobs[service.active_jobs[id]].status = RUNNING})

\* can_start_job, lines 87-102
service_can_start_job(usage) ==
    /\ usage.cpu_percent < 80
    /\ usage.memory_percent < 80
    /\ usage.disk_free_gb > 5
    /\ active_count < MAX_CONCURRENT_JOBS

\* POST /convert, lines 201-261, for a request that is admitted: the job is
\* created with the dataclass defaults, stored in Redis, and its thread is
\* started.  A request that is denied gets 503 and changes nothing.
start_conversion(id) ==
    /\ Len(service.jobs) < MaxJobs
    /\ \E usage \in Usages : service_can_start_job(usage)
    /\ service' = [service EXCEPT
            !.jobs = Append(@, ConversionJob(id, 3, 0)),
            !.thread = Append(@, "start"),
            !.redis = DictPut(@, id, Row(ConversionJob(id, 3, 0)))]
    /\ UNCHANGED <<QueueVars, monitor, probe>>

\* run_handbrake_conversion, lines 111-114, under job_lock
run_start(t) ==
    /\ service.thread[t] = "start"
    /\ \E now \in UtcNow :
          /\ service' = [service EXCEPT
                  !.jobs[t].status = RUNNING,
                  !.jobs[t].started_at = now,
                  !.active_jobs = DictPut(@, service.jobs[t].id, t),
                  !.thread[t] = "run"]
          /\ clock' = now
    /\ UNCHANGED <<jobs, hist, job_queue, running_jobs, completed_jobs, db,
                   shutdown_event, worker, client, ret, monitor, probe>>

\* run_handbrake_conversion, lines 140-152: one line of HandBrakeCLI's
\* output with a Progress object
run_progress(t) ==
    /\ service.thread[t] = "run"
    /\ \E report \in ProgressReports :
          service' = [service EXCEPT !.jobs[t].progress = report]
    /\ UNCHANGED <<QueueVars, monitor, probe>>

\* run_handbrake_conversion, lines 155-167: the process has ended
run_exit(t) ==
    /\ service.thread[t] = "run"
    /\ \E return_code \in ReturnCodes, now \in UtcNow :
          LET job == IF return_code = 0
                     THEN [service.jobs[t] EXCEPT !.status = COMPLETED,
                                                  !.progress = 100,
                                                  !.completed_at = now]
                     ELSE [service.jobs[t] EXCEPT
                              !.status = FAILED,
                              !.error_message = "return code"]
          IN  /\ service' = [service EXCEPT
                      !.jobs[t] = job,
                      !.redis = DictPut(@, job.id, Row(job)),
                      !.thread[t] = "done"]
              /\ clock' = IF return_code = 0 THEN now ELSE clock
    /\ UNCHANGED <<jobs, hist, job_queue, running_jobs, completed_jobs, db,
                   shutdown_event, worker, client, ret, monitor, probe>>

\* run_handbrake_conversion, lines 169-173: Popen or the reading of its
\* output raised
run_exception(t) ==
    /\ service.thread[t] = "run"
    /\ LET job == [service.jobs[t] EXCEPT !.status = FAILED,
                                          !.error_message = "exception"]
       IN  service' = [service EXCEPT
                   !.jobs[t] = job,
                   !.redis = DictPut(@, job.id, Row(job)),
                   !.thread[t] = "done"]
    /\ UNCHANGED <<QueueVars, monitor, probe>>

\* POST /cancel/<job_id>, lines 315-353, for a job of active_jobs that is
\* Running; any other request gets 400 or 404 and changes nothing
service_cancel_job(id) ==
    /\ id \in DOMAIN service.active_jobs
    /\ service.jobs[service.active_jobs[id]].status = RUNNING
    /\ LET t == service.active_jobs[id]
           job == [service.jobs[t] EXCEPT !.status = CANCELLED]
       IN  service' = [service EXCEPT
                   !.jobs[t] = job,
                   !.redis = DictPut(@, job.id, Row(job))]
    /\ UNCHANGED <<QueueVars, monitor, probe>>

NextService ==
    \/ \E id \in Ids : start_conversion(id)
    \/ \E t \in ServiceJobs : run_start(t)
    \/ \E t \in ServiceJobs : run_progress(t)
    \/ \E t \in ServiceJobs : run_exit(t)
    \/ \E t \in ServiceJobs : run_exception(t)
    \/ \E id \in Ids : service_cancel_job(id)

SpecService == Init /\ [][NextService]_vars

\* the queue at work on one job and a caller that asks for its status
NextStatus ==
    \/ Len(jobs) = 0 /\ Submit
    \/ add_job_db
    \/ WorkerStep
    \/ call_get_queue_status

SpecStatus == Init /\ [][NextStatus]_vars

\* JobQueue.__init__ on hosts of one core and more, with every configured
\* maximum and every CPU reading at the moment _start_workers runs; the
\* pool is never larger than NumWorkers on these hosts
InitPool ==
    /\ jobs = <<>>
    /\ hist = <<>>
    /\ job_queue = <<>>
    /\ running_jobs = <<>>
    /\ completed_jobs = <<>>
    /\ db = <<>>
    /\ shutdown_event = FALSE
    /\ client = IdleClient
    /\ ret = NoReturn
    /\ clock = 0
    /\ monitor \in [readable : {TRUE}, cpu_count : 1..NumWorkers,
                    max_jobs : MaxJobsSettings]
    /\ probe = NoProbe
    /\ service = NoService
    /\ \E usage \in get_system_usage(CpuSnapshots) :
          worker = start_workers(usage)

\* the pool at work on one job
NextPool ==
    \/ Len(jobs) = 0 /\ Submit
    \/ add_job_db
    \/ WorkerStep

SpecPool == InitPool /\ [][NextPool]_vars

\* one job, its canceller and the workers, with the worker's last write of
\* an attempt either in one piece or with the canceller's write inside it
NextWrites ==
    \/ Len(jobs) = 0 /\ Submit
    \/ add_job_db
    \/ Cancel
    \/ cancel_job_db
    \/ WorkerStep
    \/ \E w \in Workers : worker_final_db_read(w)
    \/ \E w \in Workers : worker_final_db_commit(w)

SpecWrites == Init /\ [][NextWrites]_vars

TypeOK ==
    /\ Len(jobs) <= MaxJobs
    /\ Len(hist) = Len(jobs)
    /\ \A j \in 1..Len(jobs) :
          /\ jobs[j].status \in JobStatus
          /\ jobs[j].id \in Ids
    /\ \A i \in 1..Len(job_queue) : job_queue[i] \in 1..Len(jobs)
    /\ DOMAIN running_jobs \subseteq Ids
    /\ DOMAIN completed_jobs \subseteq Ids
    /\ DOMAIN db \subseteq Ids
    /\ clock \in 0..MaxClock

\* ------------------------------------------------------------------ claims
Terminal == {COMPLETED, FAILED, CANCELLED}
JobRefs  == 1..Len(jobs)

InQueue(j)     == \E i \in 1..Len(job_queue) : job_queue[i] = j
HeldByWorker(j) == \E w \in Workers : worker[w].job = j
Converting(j)  == \E w \in Workers : worker[w].job = j /\ worker[w].pc = "convert"
InActive(j)    == /\ jobs[j].id \in DOMAIN running_jobs
                  /\ running_jobs[jobs[j].id] = j
InCompleted(j) == /\ jobs[j].id \in DOMAIN completed_jobs
                  /\ completed_jobs[jobs[j].id] = j

\* no cancel_job call has touched the job
NeverCancelled(j) ==
    /\ hist[j].cancelled = "no"
    /\ ~(client.pc = "cancel_db" /\ client.job = j)

\* converter attempts of the job that have returned
FinishedAttempts(j) == hist[j].invoked - (IF Converting(j) THEN 1 ELSE 0)

\* C1: once a job's status is Completed, Failed or Cancelled, no step of a
\* worker and no call of cancel_job or add_job changes it.
C1_TerminalStatusIsFinal ==
    [][\A j \in JobRefs :
          jobs[j].status \in Terminal => jobs'[j].status = jobs[j].status]_vars

\* C2: add_job of an id that is in running_jobs or in completed_jobs returns
\* False and leaves the queue, both tables, every job object and the store
\* as they were.
C2_DuplicateSubmitChangesNothing ==
    [][\A id \in Ids : \A mr \in 0..MaxRetries : \A rc \in 0..mr :
          (/\ add_job(id, mr, rc)
           /\ (id \in DOMAIN running_jobs \/ id \in DOMAIN completed_jobs))
          => /\ ret'.op = "add_job"
             /\ ret'.ok = FALSE
             /\ UNCHANGED <<jobs, job_queue, running_jobs, completed_jobs,
                            db>>]_vars

\* a duplicate was rejected while one id was active and one was completed
C2_Witness ==
    /\ ret.op = "add_job"
    /\ ~ret.ok
    /\ DOMAIN completed_jobs # {}
    /\ job_queue # <<>>

\* C3: a job submitted with retry_count 0 and max_retries N, never cancelled
\* and never converted with success, is invoked at most N+1 times and set to
\* Retrying at most N times; when it is Failed it has been invoked exactly
\* N+1 times, been Retrying exactly N times and has retry_count N; and when
\* no worker holds it and it is not queued after an attempt, it is Failed.
C3_FailedAfterNRetries ==
    \A j \in JobRefs :
        (/\ hist[j].submitted_retry_count = 0
         /\ NeverCancelled(j)
         /\ ~hist[j].succeeded)
        => /\ hist[j].invoked <= jobs[j].max_retries + 1
           /\ hist[j].retried <= jobs[j].max_retries
           /\ jobs[j].status = FAILED =>
                 /\ hist[j].invoked = jobs[j].max_retries + 1
                 /\ hist[j].retried = jobs[j].max_retries
                 /\ jobs[j].retry_count = jobs[j].max_retries
           /\ (hist[j].invoked > 0 /\ ~HeldByWorker(j) /\ ~InQueue(j)) =>
                 jobs[j].status = FAILED

\* a job with max_retries >= 1 has failed for good and is at rest
C3_Witness ==
    \E j \in JobRefs :
        /\ jobs[j].status = FAILED
        /\ jobs[j].max_retries >= 1
        /\ NeverCancelled(j)
        /\ hist[j].invoked = jobs[j].max_retries + 1
        /\ ~HeldByWorker(j)

\* C4: every job submitted with 0 <= retry_count <= max_retries keeps
\* retry_count <= max_retries in every reachable state.
C4_RetryCountBounded ==
    \A j \in JobRefs : jobs[j].retry_count <= jobs[j].max_retries

\* a job that arrived with its retries used up has failed without another,
\* next to a job that used a retry
C4_Witness ==
    /\ \E j \in JobRefs :
          /\ hist[j].submitted_retry_count > 0
          /\ jobs[j].status = FAILED
          /\ jobs[j].retry_count = jobs[j].max_retries
    /\ \E j \in JobRefs :
          /\ hist[j].retried > 0
          /\ jobs[j].retry_count = jobs[j].max_retries

\* C5: a job whose converter invocation succeeded and which was not
\* cancelled is Completed with progress 100 and completed_at set and not
\* before started_at; once no worker holds it, it is off the active table,
\* on the completed table, and get_job_status(id) returns it.
C5_SuccessIsCompleted ==
    \A j \in JobRefs :
        (hist[j].succeeded /\ NeverCancelled(j))
        => /\ jobs[j].status = COMPLETED
           /\ jobs[j].progress = 100
           /\ jobs[j].completed_at # NoTime
           /\ jobs[j].completed_at >= jobs[j].started_at
           /\ (~HeldByWorker(j) /\ LockFree) =>
                 /\ ~InActive(j)
                 /\ InCompleted(j)
                 /\ get_job_status(jobs[j].id) = j

\* the job the last add_job call accepted
LastAdded == Len(jobs)

\* the last API call to return was an add_job that returned True
JustAdded == ret.op = "add_job" /\ ret.ok /\ LockFree

\* C6: get_job_status(id) called right after add_job returned True for a
\* fresh id returns that job with status Pending or Running, whatever the
\* workers did in between.
C6_StatusAfterSubmit ==
    JustAdded =>
        /\ get_job_status(jobs[LastAdded].id) = LastAdded
        /\ jobs[LastAdded].status \in {PENDING, RUNNING}

\* C6 as amended: the call returns a job with that id, never None; it is the
\* submitted job, Pending or Running, as long as no converter attempt of that
\* job has returned and no worker has moved a job with that id to the
\* completed table.
C6_StatusAfterSubmitAmended ==
    JustAdded =>
        /\ get_job_status(jobs[LastAdded].id) # NoJob
        /\ jobs[get_job_status(jobs[LastAdded].id)].id = jobs[LastAdded].id
        /\ (/\ FinishedAttempts(LastAdded) = 0
            /\ jobs[LastAdded].id \notin DOMAIN completed_jobs) =>
              /\ get_job_status(jobs[LastAdded].id) = LastAdded
              /\ jobs[LastAdded].status \in {PENDING, RUNNING}

\* right after add_job returned True a worker is already converting the job
C6_Witness ==
    /\ JustAdded
    /\ jobs[LastAdded].status = RUNNING
    /\ Converting(LastAdded)
    /\ FinishedAttempts(LastAdded) = 0
    /\ jobs[LastAdded].id \notin DOMAIN completed_jobs
    /\ get_job_status(jobs[LastAdded].id) = LastAdded

\* C7: after cancel_job returned True for a job that was Pending, the job
\* is not on the active table, and neither queue_size nor running_jobs of
\* get_queue_status counts it.
CancelledWhilePending(j) == hist[j].cancelled \in {"undequeued", "pending"}

C7_CancelledPendingNotCounted ==
    LockFree =>
        \A j \in JobRefs :
            CancelledWhilePending(j) =>
                /\ ~InActive(j)
                /\ get_queue_status.queue_size
                      <= Len(SelectSeq(job_queue, LAMBDA r : r # j))
                /\ get_queue_status.running_jobs
                      <= Cardinality({i \in DOMAIN running_jobs :
                                         running_jobs[i] # j})

\* C8: after cancel_job returned True for a job that no worker had dequeued,
\* the converter is never invoked for it and no worker sets it to Running.
C8_CancelledBeforeDequeueNeverRuns ==
    \A j \in JobRefs :
        hist[j].cancelled = "undequeued" =>
            /\ hist[j].invoked = 0
            /\ jobs[j].status # RUNNING

\* C9: cancel_job of an id that is on neither table returns False and
\* changes no job, table, queue or store row; get_job_status of such an id
\* returns None.
C9_UnknownId ==
    /\ [][\A id \in Ids :
             (/\ cancel_job(id)
              /\ id \notin DOMAIN running_jobs
              /\ id \notin DOMAIN completed_jobs)
             => /\ ret'.op = "cancel_job"
                /\ ret'.ok = FALSE
                /\ UNCHANGED <<jobs, job_queue, running_jobs, completed_jobs,
                               db>>]_vars
    /\ [](\A id \in Ids :
             (id \notin DOMAIN running_jobs /\ id \notin DOMAIN completed_jobs)
             => get_job_status(id) = NoJob)

\* cancel_job returned False for an id that was once tracked and is now on
\* neither table
C9_Witness ==
    /\ ret.op = "cancel_job"
    /\ ~ret.ok
    /\ DOMAIN running_jobs = {}
    /\ DOMAIN completed_jobs = {}
    /\ Len(jobs) > 0

\* C10: every accepted job whose status is Pending, Running or Retrying is
\* on the active table and not on the completed table (stated for the jobs
\* no cancel_job call has touched).
C10_ActiveUntilTerminal ==
    LockFree =>
        \A j \in JobRefs :
            (NeverCancelled(j) /\ jobs[j].status \in {PENDING, RUNNING, RETRYING})
            => (InActive(j) /\ ~InCompleted(j))

\* the job is neither on the queue nor in the hands of a worker
AtRest(j) == ~InQueue(j) /\ ~HeldByWorker(j)

TerminalAtRest(j) ==
    /\ j \in JobRefs
    /\ jobs[j].status \in Terminal
    /\ AtRest(j)

\* C11: with fair workers, admission granted again and again, a converter
\* that returns and no shutdown, every accepted job gets to a moment from
\* which on it is Completed, Failed or Cancelled, off the queue and held by
\* no worker.
C11_EveryJobComesToRest ==
    \A j \in 1..MaxJobs :
        (j \in JobRefs) ~> [](TerminalAtRest(j))

\* a job cancelled before a worker took it was converted all the same and
\* has come to rest, and the job submitted again under its id has used a
\* retry, failed for good and come to rest
C11_Witness ==
    /\ \E j \in JobRefs :
          /\ hist[j].cancelled = "undequeued"
          /\ hist[j].invoked > 0
          /\ TerminalAtRest(j)
    /\ \E j \in JobRefs :
          /\ hist[j].retried > 0
          /\ jobs[j].status = FAILED
          /\ TerminalAtRest(j)

\* C12: can_start_job returns False exactly when cpu_percent is above the
\* CPU limit, or memory_percent above the memory limit, or less than 2 GB of
\* memory is available, or less than 5 GB of disk is free; with limits 80/80
\* it is False for CPU 95, memory 90, 1 GB free and True for CPU 50, memory
\* 60, 8 GB free, 3 GB available.
C12_CanAdmit ==
    probe.op = "can_start_job" =>
        /\ probe.admitted = ~(\/ probe.usage.cpu_percent > cpu_threshold
                              \/ probe.usage.memory_percent > memory_threshold
                              \/ probe.usage.memory_available_gb < 2
                              \/ probe.usage.disk_free_gb < 5)
        /\ (/\ cpu_threshold = 80
            /\ memory_threshold = 80
            /\ probe.usage.cpu_percent = 95
            /\ probe.usage.memory_percent = 90
            /\ probe.usage.disk_free_gb = 1) => ~probe.admitted
        /\ (/\ cpu_threshold = 80
            /\ memory_threshold = 80
            /\ probe.usage.cpu_percent = 50
            /\ probe.usage.memory_percent = 60
            /\ probe.usage.disk_free_gb = 8
            /\ probe.usage.memory_available_gb = 3) => probe.admitted

\* a host exactly at its four limits was admitted
C12_Witness ==
    /\ probe.op = "can_start_job"
    /\ probe.admitted
    /\ probe.usage.cpu_percent = cpu_threshold
    /\ probe.usage.memory_percent = memory_threshold
    /\ probe.usage.memory_available_gb = 2
    /\ probe.usage.disk_free_gb = 5

\* C13: while psutil raises, get_system_usage returns the zeroed snapshot,
\* can_start_job is False for it, and no step sets a job to Running.
C13_NoStartWhileUnreadable ==
    /\ [](~monitor.readable =>
             /\ get_system_usage(Usages) = {ZeroUsage}
             /\ \A usage \in get_system_usage(Usages) : ~can_start_job(usage))
    /\ [][~monitor.readable =>
             \A j \in JobRefs :
                 /\ jobs'[j].status = RUNNING => jobs[j].status = RUNNING
                 /\ hist'[j].invoked = hist[j].invoked]_vars

\* during an outage a worker has taken a job and put it back on the queue
C13_Witness ==
    /\ ~monitor.readable
    /\ \E j \in JobRefs :
          /\ hist[j].dequeued
          /\ hist[j].invoked = 0
          /\ jobs[j].status = PENDING
          /\ InQueue(j)
          /\ ~HeldByWorker(j)

\* C14: for one core count and one configured maximum, of two calls of
\* get_optimal_job_count the one that read the higher CPU never returns the
\* larger count.
C14_OptimalMonotone ==
    (probe.op = "get_optimal_job_count" /\ probe.prev.made) =>
        /\ probe.prev.cpu_percent < probe.usage.cpu_percent
              => probe.count <= probe.prev.count
        /\ probe.usage.cpu_percent < probe.prev.cpu_percent
              => probe.prev.count <= probe.count

\* C15: get_optimal_job_count returns max(1, cores div 4) for a CPU above
\* 70, max(2, cores div 2) for a CPU above 50 and up to 70, and min(configured
\* maximum, cores) otherwise; with 8 cores and a maximum of 8, 8 at CPU 30
\* and 2 at CPU 80.
C15_OptimalByBand ==
    probe.op = "get_optimal_job_count" =>
        /\ probe.usage.cpu_percent > 70 =>
              /\ probe.count \in {1, monitor.cpu_count \div 4}
              /\ probe.count >= 1
              /\ probe.count >= monitor.cpu_count \div 4
        /\ (probe.usage.cpu_percent > 50 /\ probe.usage.cpu_percent <= 70) =>
              /\ probe.count \in {2, monitor.cpu_count \div 2}
              /\ probe.count >= 2
              /\ probe.count >= monitor.cpu_count \div 2
        /\ probe.usage.cpu_percent <= 50 =>
              /\ probe.count \in {monitor.max_jobs, monitor.cpu_count}
              /\ probe.count <= monitor.max_jobs
              /\ probe.count <= monitor.cpu_count
        /\ (monitor.cpu_count = 8 /\ monitor.max_jobs = 8) =>
              /\ probe.usage.cpu_percent = 30 => probe.count = 8
              /\ probe.usage.cpu_percent = 80 => probe.count = 2

\* on 8 cores with a maximum of 8 a call at CPU 30 returned 8 and the next
\* call, at CPU 80, returned 2
C15_Witness ==
    /\ probe.op = "get_optimal_job_count"
    /\ monitor.cpu_count = 8
    /\ monitor.max_jobs = 8
    /\ probe.prev.made
    /\ probe.prev.cpu_percent = 30
    /\ probe.prev.count = 8
    /\ probe.usage.cpu_percent = 80
    /\ probe.count = 2

\* the threads _start_workers created, and those of them that still run
Created == {w \in Workers : worker[w].pc # "none"}
Live    == {w \in Workers : worker[w].pc \notin {"none", "exit"}}

\* C16: the threads are as many as get_optimal_job_count returned for the
\* snapshot sampled at construction; no thread is created later; and until
\* shutdown_event is set every one of them is alive, whatever failure or
\* exception its jobs ran into.
C16_PoolSizeFixed ==
    /\ [](Cardinality(Created) \in
             {get_optimal_job_count(usage, monitor.cpu_count, monitor.max_jobs) :
                 usage \in Usages})
    /\ [](~shutdown_event => Live = Created)
    /\ [][Created' = Created]_vars

\* with no shutdown, a full pool is waiting on the queue after one job
\* failed on an exception and another on its converter
C16_Witness ==
    /\ ~shutdown_event
    /\ Cardinality(Created) = NumWorkers
    /\ \A w \in Created : worker[w].pc = "wait"
    /\ \E j \in JobRefs : /\ jobs[j].status = FAILED
                          /\ jobs[j].error_message = "exception"
    /\ \E j \in JobRefs : /\ jobs[j].status = FAILED
                          /\ jobs[j].error_message = "stderr"

\* C17: an add_job or cancel_job whose write to the store fails returns
\* False; a worker whose write fails is still running afterwards, and the
\* job object has the status the worker had just given it.
C17_WriteFailureSurfaced ==
    [][/\ (add_job_db_fails \/ cancel_job_db_fails) => ~ret'.ok
       /\ \A w \in Workers :
             /\ worker_start_db_fails(w) =>
                   /\ worker'[w].pc = "convert"
                   /\ jobs'[worker[w].job].status = RUNNING
             /\ worker_final_db_fails(w) =>
                   /\ worker'[w].pc = "move"
                   /\ jobs'[worker[w].job] = jobs[worker[w].job]]_vars

\* C18: once shutdown_event is set, no worker takes a job off the queue and
\* starts to convert it: every conversion under way was taken off the queue
\* before the event was set.
C18_NoNewWorkAfterShutdown ==
    \A w \in Workers :
        worker[w].pc = "convert" => ~worker[w].after_stop

\* this step wrote the job to the store: there is one row under its id, with
\* the job's value in every column, the other rows are as they were, and
\* writing the job once more changes nothing
Upserted(job) ==
    /\ DOMAIN db' = DOMAIN db \cup {job.id}
    /\ db'[job.id].status = job.status
    /\ db'[job.id].progress = job.progress
    /\ db'[job.id].error_message = job.error_message
    /\ db'[job.id].retry_count = job.retry_count
    /\ db'[job.id].max_retries = job.max_retries
    /\ db'[job.id].started_at = job.started_at
    /\ db'[job.id].completed_at = job.completed_at
    /\ \A i \in DOMAIN db \ {job.id} : db'[i] = db[i]
    /\ update_job_in_db(db', job) = db'

\* C19: every write of a job to the store leaves exactly one row under the
\* job's id, holding the job's values in every column whatever the row held
\* before, leaves the other rows alone, and a second write of the same job
\* leaves the store as the first did.
C19_UpsertIdempotentTotal ==
    [][/\ add_job_db => Upserted(jobs[client.job])
       /\ cancel_job_db => Upserted(jobs[client.job])
       /\ \A w \in Workers :
             /\ worker_start(w) => Upserted(jobs'[worker[w].job])
             /\ worker_final_db(w) => Upserted(jobs[worker[w].job])]_vars

\* the store holds two rows, each written several times: one of a job that
\* completed and one of a job that failed after a retry
C19_Witness ==
    /\ Cardinality(DOMAIN db) = 2
    /\ \E i \in DOMAIN db : /\ db[i].status = COMPLETED
                             /\ db[i].progress = 100
    /\ \E i \in DOMAIN db : /\ db[i].status = FAILED
                             /\ db[i].retry_count = 1
    /\ \A w \in Workers : worker[w].job = NoJob

\* C20: a job waiting on the queue after a failed attempt has status
\* Pending, and a job a worker has taken off the queue for dispatch has
\* status Pending (stated for the jobs no cancel_job call has touched).
C20_RetryingNotResting ==
    \A j \in JobRefs :
        NeverCancelled(j) =>
            /\ (InQueue(j) /\ hist[j].retried > 0) => jobs[j].status = PENDING
            /\ (\E w \in Workers : worker[w].pc = "gate" /\ worker[w].job = j)
                  => jobs[j].status = PENDING

\* a job that waits on the queue for a retry
QueuedForRetry(j) == InQueue(j) /\ hist[j].retried > 0 /\ NeverCancelled(j)

\* C21: after a failed attempt with retries left, the record with the new
\* retry_count and status Retrying is in the store before the job is back
\* on the queue, where a worker can take it again.
C21_RetryPersistedBeforeRequeue ==
    \A j \in JobRefs :
        (QueuedForRetry(j) /\ jobs[j].status = RETRYING) =>
            /\ jobs[j].id \in DOMAIN db
            /\ db[jobs[j].id].retry_count = jobs[j].retry_count
            /\ db[jobs[j].id].status = RETRYING

\* C22: the row add_job writes for the job it has just accepted has status
\* Pending, and it is written before a worker has taken the job off the
\* queue.
C22_PendingPersistedBeforeDispatch ==
    [][add_job_db =>
          /\ db'[client.id].status = PENDING
          /\ ~hist[client.job].dequeued]_vars

\* the worker had a job at the admission gate and is back at the top of its
\* loop: admission was denied
Denied(w) ==
    /\ worker[w].pc = "gate"
    /\ worker'[w].pc \in {"wait", "exit"}

\* C23: a denial puts the job at the tail of the queue, behind every job
\* that was queued, changes no field of any job and no row of the store,
\* and does not invoke the converter.
C23_DenialRecirculates ==
    [][\A w \in Workers :
          Denied(w) =>
              /\ job_queue' = Append(job_queue, worker[w].job)
              /\ jobs' = jobs
              /\ db' = db
              /\ hist'[worker[w].job].invoked = hist[worker[w].job].invoked
              /\ hist'[worker[w].job].retried = hist[worker[w].job].retried
              /\ UNCHANGED <<running_jobs, completed_jobs>>]_vars

\* the job submitted first was taken and denied, and now waits behind the
\* job submitted second, which no worker has taken yet
C23_Witness ==
    /\ Len(jobs) = 2
    /\ job_queue = <<2, 1>>
    /\ hist[1].dequeued
    /\ hist[1].invoked = 0
    /\ ~hist[2].dequeued
    /\ jobs[1].status = PENDING
    /\ jobs[1].retry_count = 0
    /\ jobs[1].started_at = NoTime

\* C25: a job whose status is Completed, Failed or Cancelled has
\* completed_at set.
C25_TerminalHasCompletedAt ==
    \A j \in JobRefs :
        jobs[j].status \in Terminal => jobs[j].completed_at # NoTime

\* C26: once started_at of a job is set, no later dispatch changes it.
C26_StartedAtSetOnce ==
    [][\A j \in JobRefs :
          jobs[j].started_at # NoTime
              => jobs'[j].started_at = jobs[j].started_at]_vars

\* after this step the store holds the job as the step left it
Saved(j) ==
    /\ jobs[j].id \in DOMAIN db'
    /\ db'[jobs[j].id] = Row(jobs'[j])

\* C27: a worker writes the job to the store in the step that makes it
\* Running, and writes it again, as Completed, Failed or Retrying, before it
\* moves the job to the completed table and goes back to the queue for its
\* next job.
C27_PersistBeforeNextJob ==
    [][\A w \in Workers :
          /\ (worker[w].pc = "gate" /\ worker'[w].pc = "convert") =>
                /\ jobs'[worker[w].job].status = RUNNING
                /\ Saved(worker[w].job)
          /\ worker[w].pc \in {"convert", "cooldown"} =>
                worker'[w].pc \in {"convert", "cooldown", "final_db"}
          /\ (worker[w].pc = "final_db" /\ worker'[w].pc # "final_db") =>
                /\ worker'[w].pc = "move"
                /\ Saved(worker[w].job)
          /\ worker'[w].pc = "wait" =>
                worker[w].pc \in {"wait", "gate", "move"}]_vars

\* a worker is back at the queue after a job that failed for good, and the
\* store holds the job as Failed with its retry used
C27_Witness ==
    \E j \in JobRefs :
        /\ jobs[j].status = FAILED
        /\ jobs[j].retry_count = 1
        /\ ~HeldByWorker(j)
        /\ jobs[j].id \in DOMAIN db
        /\ db[jobs[j].id] = Row(jobs[j])
        /\ \E w \in Workers : worker[w].pc = "wait"

\* C24: an exception raised while a job is processed is a failed attempt
\* like any other: a job that is Failed and has left the workers has used
\* all its retries and is no longer in the active table.
C24_ExceptionIsRetried ==
    \A j \in JobRefs :
        (jobs[j].status = FAILED /\ NeverCancelled(j) /\ AtRest(j)) =>
            /\ jobs[j].retry_count = jobs[j].max_retries
            /\ ~InActive(j)

\* the converter of worker w has run into its time limit in this step
TimesOut(w) ==
    /\ worker[w].pc = "convert"
    /\ worker'[w].pc # "convert"
    /\ jobs'[worker[w].job].error_message = TimedOut
    /\ jobs'[worker[w].job].status \in {RETRYING, FAILED}

\* C30: a converter timeout uses one retry (retry_count + 1, status
\* Retrying, on its way back to the queue) while retry_count < max_retries,
\* and makes the job Failed with the timeout message, retry_count as it
\* was, otherwise.
C30_TimeoutIsAFailure ==
    [][\A w \in Workers :
          TimesOut(w) =>
              LET before == jobs[worker[w].job]
                  after  == jobs'[worker[w].job]
              IN  IF before.retry_count < before.max_retries
                  THEN /\ after.retry_count = before.retry_count + 1
                       /\ after.status = RETRYING
                       /\ worker'[w].pc = "cooldown"
                  ELSE /\ after.retry_count = before.retry_count
                       /\ after.status = FAILED
                       /\ worker'[w].pc = "final_db"]_vars

\* a job was retried once and then failed for good on a timeout
C30_Witness ==
    \E j \in JobRefs :
        /\ jobs[j].status = FAILED
        /\ jobs[j].error_message = TimedOut
        /\ jobs[j].max_retries = 1
        /\ jobs[j].retry_count = 1
        /\ hist[j].retried = 1
        /\ hist[j].invoked = 2
        /\ AtRest(j)
        /\ InCompleted(j)

\* C29: the dict of one get_queue_status call is one snapshot: can_start_job
\* and optimal_job_count are what can_start_job and get_optimal_job_count
\* give for the system_usage of the same dict, and the three counts are
\* those of the queue and the tables at one moment.
C29_StatusIsOneSnapshot ==
    [][(probe' # probe /\ probe'.op = "get_queue_status") =>
          /\ probe'.admitted = can_start_job(probe'.usage)
          /\ probe'.count = get_optimal_job_count(probe'.usage,
                                                  monitor.cpu_count,
                                                  monitor.max_jobs)
          /\ probe'.status = get_queue_status]_vars

\* C28: the progress of a job does not go down from one step to the next
\* while the job is Running, and the progress of a Completed job is 100 and
\* stays 100.
C28_ProgressMonotone ==
    [][\A t \in ServiceJobs :
          /\ (service.jobs[t].status = RUNNING
                  /\ service'.jobs[t].status = RUNNING) =>
                service'.jobs[t].progress >= service.jobs[t].progress
          /\ service.jobs[t].status = COMPLETED =>
                /\ service.jobs[t].progress = 100
                /\ service'.jobs[t].progress = 100]_vars

\* C31: the queue never holds two entries of one job id, and no two workers
\* run the converter for one job id at the same time.
C31_OneWorkerPerJob ==
    /\ \A i, k \in 1..Len(job_queue) :
          i # k => jobs[job_queue[i]].id # jobs[job_queue[k]].id
    /\ \A w, v \in Workers :
          (w # v /\ worker[w].pc = "convert" /\ worker[v].pc = "convert")
              => jobs[worker[w].job].id # jobs[worker[v].job].id

\* C32: get_job_status(id) returns a job, never None, for every id that
\* add_job has accepted, cancelled or not.
C32_StatusNeverNotFound ==
    LockFree => \A j \in JobRefs : get_job_status(jobs[j].id) # NoJob

\* the workers that have job j at the admission gate, in the converter or
\* in the cooldown of a retry
Holders(j) ==
    {w \in Workers : /\ worker[w].job = j
                     /\ worker[w].pc \in {"gate", "convert", "cooldown"}}

\* C33: an accepted job that is not Completed, Failed or Cancelled is on the
\* queue or with exactly one worker, never with two and never nowhere.
C33_NoJobLost ==
    \A j \in JobRefs :
        jobs[j].status \notin Terminal =>
            IF InQueue(j) THEN Holders(j) = {}
            ELSE Cardinality(Holders(j)) = 1

\* a job that has failed once waits on the queue for its retry
C33_Witness ==
    \E j \in JobRefs :
        /\ jobs[j].status = RETRYING
        /\ hist[j].retried = 1
        /\ hist[j].invoked = 1
        /\ InQueue(j)
        /\ NeverCancelled(j)

\* nothing is queued, no worker has a job in hand, no API call is running
Quiescent ==
    /\ job_queue = <<>>
    /\ LockFree
    /\ \A w \in Workers : worker[w].pc \in {"wait", "none", "exit"}

\* C34: at a moment of rest the row of every job has the status,
\* retry_count and progress of the job object.
C34_StoreMirrorsMemory ==
    Quiescent =>
        \A j \in JobRefs :
            /\ jobs[j].id \in DOMAIN db
            /\ db[jobs[j].id].status = jobs[j].status
            /\ db[jobs[j].id].retry_count = jobs[j].retry_count
            /\ db[jobs[j].id].progress = jobs[j].progress

\* the worker threads that _start_workers started
Started == {w \in Workers : worker[w].pc # "none"}

\* C35: the pool is never larger than max_concurrent_jobs and never larger
\* than the number of cores.
C35_PoolWithinLimits ==
    /\ Cardinality(Started) <= monitor.max_jobs
    /\ Cardinality(Started) <= monitor.cpu_count

\* C36: no job id is in running_jobs and in completed_jobs at once.
C36_TablesDisjoint == DOMAIN running_jobs \cap DOMAIN completed_jobs = {}

\* one job has been moved to the completed table while another is in the
\* active table
C36_Witness ==
    /\ DOMAIN completed_jobs # {}
    /\ DOMAIN running_jobs # {}
    /\ \E j \in JobRefs : InCompleted(j) /\ jobs[j].status = COMPLETED

\* the jobs of the service that are Running
ServiceRunning == {t \in ServiceJobs : service.jobs[t].status = RUNNING}

\* C37: the HandBrake service never has more than MAX_CONCURRENT_JOBS jobs
\* with status Running.
C37_RunningWithinLimit == Cardinality(ServiceRunning) <= MAX_CONCURRENT_JOBS

\* C38: a job of the service that is Cancelled stays Cancelled, and the
\* record its conversion thread stores when it finishes says Cancelled.
C38_CancelledStaysCancelled ==
    [][\A t \in ServiceJobs :
          service.jobs[t].status = CANCELLED =>
              /\ service'.jobs[t].status = CANCELLED
              /\ service'.thread[t] = "done" =>
                    service'.redis[service.jobs[t].id].status = CANCELLED]_vars

====
